---- MODULE Spec2Model ----
(***************************************************************************)
(* Logged and mergeable svelte stores (src/shared/store.util.ts): the      *)
(* update orchestrator, the logging decorator with its process-wide flag,  *)
(* the merge decorator and the cycle-safe JSON serializer.                 *)
(***************************************************************************)
EXTENDS Integers, Sequences, FiniteSets, TLC

VARIABLES
  heap,       \* application objects that state values may refer to: id -> properties
  enabled,    \* loggable.enabled
  created,    \* the containers constructed so far
  value,      \* each base store's current value
  subs,       \* each base store's registered subscribers
  delivered,  \* per container and subscriber: values delivered by the latest operation on it
  console,    \* what the latest operation wrote to the console
  last,       \* the latest operation: container, operation, argument, whether it raised
  ser         \* result of a stand-alone JSON.stringify(root, serializer()) run

vars == <<heap, enabled, created, value, subs, delivered, console, last, ser>>

(***************************************************************************)
(* Bounds                                                                  *)
(***************************************************************************)
NObj == 3          \* objects on the application heap
MaxFrames == 4     \* most 'at ' frames a captured stack trace holds

(***************************************************************************)
(* JavaScript values.  A value is a tagged tuple; an object is named by a  *)
(* reference and its own enumerable properties live on the heap.           *)
(***************************************************************************)
Keys == {"a", "b"}
KeyOrder == <<"a", "b">>
ObjIds == 1..NObj
Num(n) == <<"num", n>>
Undef == <<"undefined">>
Absent == <<"absent">>                 \* the property does not exist
Ref(i) == <<"ref", i>>
IsRef(v) == v[1] = "ref"
Holder == <<"holder">>                 \* the wrapper {"": root} JSON.stringify starts from
Str(tokens) == <<"str", tokens>>        \* a string, as the sequence of its pieces
IsObjectValue(v) == IsRef(v)

\* Array.prototype.indexOf: the first 0-based position of x, or -1.
IndexOf(s, x) ==
  IF \E i \in 1..Len(s) : s[i] = x
  THEN (CHOOSE i \in 1..Len(s) : s[i] = x /\ \A j \in 1..(i - 1) : s[j] # x) - 1
  ELSE -1

\* Array.prototype.slice(0, end) for 0 <= end.
Slice0(s, end) == SubSeq(s, 1, IF end < Len(s) THEN end ELSE Len(s))

\* Array.prototype.join('.'), as the pieces of the joined string.
RECURSIVE JoinDot(_)
JoinDot(s) ==
  IF Len(s) = 0 THEN <<>>
  ELSE IF Len(s) = 1 THEN <<s[1]>>
  ELSE <<s[1], ".">> \o JoinDot(Tail(s))

(***************************************************************************)
(* serializer(): the replacer closure over stack and keys.                 *)
(***************************************************************************)
EmptySerializer == [stack |-> <<>>, keys |-> <<>>]

\* The default cycleReplacer.
CycleReplacer(stack, keys, key, v) ==
  IF stack[1] = v THEN Str(<<"[Circular ~", "]">>)
  ELSE Str(<<"[Circular ~.">> \o JoinDot(Slice0(keys, IndexOf(stack, v))) \o <<"]">>)

\* Replacer with the stack left as it is when this is found in it
\* (stack.splice(thisPos + 1) dropped): closed objects stay on the stack.
ReplacerKeepsClosed(st, this, key, v) ==
  IF Len(st.stack) > 0
  THEN LET thisPos == IndexOf(st.stack, this)
           stack1 == IF thisPos # -1 THEN st.stack ELSE Append(st.stack, this)
           keys1 == IF thisPos # -1 THEN Append(Slice0(st.keys, thisPos), key)
                                    ELSE Append(st.keys, key)
       IN [stack |-> stack1, keys |-> keys1,
           value |-> IF IndexOf(stack1, v) # -1
                     THEN CycleReplacer(stack1, keys1, key, v) ELSE v]
  ELSE [stack |-> <<v>>, keys |-> st.keys, value |-> v]

\* One call of the returned function with this = holder; replacer is null.
\* Gives the closure's new stack and keys and the value returned.
Replacer(st, this, key, v) ==
  IF Len(st.stack) > 0
  THEN LET thisPos == IndexOf(st.stack, this)
           stack1 == IF thisPos # -1 THEN Slice0(st.stack, thisPos + 1)
                                     ELSE Append(st.stack, this)
           keys1 == IF thisPos # -1 THEN Append(Slice0(st.keys, thisPos), key)
                                    ELSE Append(st.keys, key)
       IN [stack |-> stack1, keys |-> keys1,
           value |-> IF IndexOf(stack1, v) # -1
                     THEN CycleReplacer(stack1, keys1, key, v) ELSE v]
  ELSE [stack |-> <<v>>, keys |-> st.keys, value |-> v]

(***************************************************************************)
(* JSON.stringify(value, replacer) as ECMAScript defines it                *)
(* (SerializeJSONProperty / SerializeJSONObject), driving Replacer.  The   *)
(* text is kept as its members: <<key path, token>>, an object as the      *)
(* token "{".  anc is the engine's own stack of open objects, path the     *)
(* keys leading from the root to the holder.  A result used more than once *)
(* is bound through a one-element set, which evaluates it once.            *)
(***************************************************************************)
OwnKeys(props) == SelectSeq(KeyOrder, LAMBDA k : props[k] # Absent)

\* The JSON token of a primitive; "none" where JSON.stringify emits nothing.
JSONToken(v) ==
  CASE v[1] = "num" -> <<"number", v[2]>>
    [] v[1] = "str" -> <<"string", v[2]>>
    [] OTHER -> <<"none">>

RECURSIVE SerializeJSONProperty(_, _, _, _, _, _, _), SerializeJSONObject(_, _, _, _, _, _, _)
SerializeJSONProperty(h, st, anc, path, holder, key, v) ==
  LET r == Replacer(st, holder, key, v)
      st1 == [stack |-> r.stack, keys |-> r.keys]
      call == [this |-> holder, key |-> key, value |-> v, out |-> r.value,
               anc |-> anc, path |-> path]
      here == IF holder = Holder THEN path ELSE Append(path, key)
  IN IF IsObjectValue(r.value)
     THEN IF IndexOf(anc, r.value) # -1
          THEN \* TypeError: Converting circular structure to JSON
               [st |-> st1, doc |-> {}, raised |-> TRUE, calls |-> <<call>>]
          ELSE LET o == SerializeJSONObject(h, st1, Append(anc, r.value), here,
                                            r.value, OwnKeys(h[r.value[2]]), {})
               IN [st |-> o.st, doc |-> {<<here, <<"{">> >>} \cup o.doc,
                   raised |-> o.raised, calls |-> <<call>> \o o.calls]
     ELSE [st |-> st1,
           doc |-> IF JSONToken(r.value) = <<"none">> THEN {}
                   ELSE {<<here, JSONToken(r.value)>>},
           raised |-> FALSE, calls |-> <<call>>]

\* The members of object obj still to serialize are keysLeft.
SerializeJSONObject(h, st, anc, path, obj, keysLeft, acc) ==
  IF Len(keysLeft) = 0
  THEN [st |-> st, doc |-> acc, raised |-> FALSE, calls |-> <<>>]
  ELSE LET k == Head(keysLeft)
           p == SerializeJSONProperty(h, st, anc, path, obj, k, h[obj[2]][k])
       IN IF p.raised
          THEN [st |-> p.st, doc |-> acc, raised |-> TRUE, calls |-> p.calls]
          ELSE LET rest == SerializeJSONObject(h, p.st, anc, path, obj,
                                               Tail(keysLeft), acc \cup p.doc)
               IN [st |-> rest.st, doc |-> rest.doc, raised |-> rest.raised,
                   calls |-> p.calls \o rest.calls]

\* JSON.stringify(root, serializer()): the text's members, or undefined
\* (no member at all) when the root itself yields nothing.
JSONstringify(h, root) ==
  SerializeJSONProperty(h, EmptySerializer, <<>>, <<>>, Holder, "", root)

\* JSON.parse of that text: SyntaxError on undefined, else a fresh tree,
\* again as members <<key path, value>>.
ParseToken(t) ==
  CASE t[1] = "number" -> Num(t[2])
    [] t[1] = "string" -> Str(t[2])
    [] OTHER -> t
JSONparse(doc) == {<<m[1], ParseToken(m[2])>> : m \in doc}
JSONparseRaises(doc) == doc = {}

(***************************************************************************)
(* Store values.  A store holds undefined or an object; {...x} yields a    *)
(* fresh object, so it is kept by its own properties.                      *)
(***************************************************************************)
NoProps == [k \in Keys |-> Absent]
UndefinedValue == [kind |-> "undefined", props |-> NoProps]
Obj(props) == [kind |-> "object", props |-> props]
Props(a, b) == [k \in Keys |-> IF k = "a" THEN a ELSE b]

\* Spread with the operands swapped, { ...result, ...prev }: prev wins.
SpreadPrevWins(prev, result) ==
  Obj([k \in Keys |-> IF prev.props[k] # Absent THEN prev.props[k]
                      ELSE result.props[k]])

\* Spread that adds a number of result to the number prev holds under the
\* same key instead of replacing it.
SpreadAddsNumbers(prev, result) ==
  Obj([k \in Keys |->
        IF result.props[k] = Absent THEN prev.props[k]
        ELSE IF result.props[k][1] = "num" /\ prev.props[k][1] = "num"
             THEN Num(prev.props[k][2] + result.props[k][2])
        ELSE result.props[k]])

\* { ...prev, ...result }: spreading undefined adds no property.
Spread(prev, result) ==
  Obj([k \in Keys |-> IF result.props[k] # Absent THEN result.props[k]
                      ELSE prev.props[k]])

\* The heap as JSON.stringify sees it when handed store value v: the fresh
\* object v is object 0.
HeapWith(v) == [i \in {0} \cup ObjIds |-> IF i = 0 THEN v.props ELSE heap[i]]
RootOf(v) == IF v.kind = "undefined" THEN Undef ELSE Ref(0)

(***************************************************************************)
(* Arguments of set / update / merge.                                      *)
(***************************************************************************)
\* Objects application code keeps: object 1 has a property referring back to
\* itself, the others are plain.
AppHeap ==
  [i \in ObjIds |-> IF i = 1 THEN Props(Num(1), Ref(1)) ELSE Props(Num(i), Absent)]

InitialValue == Obj(Props(Num(1), Absent))

Partials ==
  { Obj(Props(Num(2), Absent)),      \* { a: 2 }
    Obj(Props(Absent, Undef)),       \* { b: undefined }
    Obj(Props(Absent, Ref(1))),      \* { b: <object 1> }
    Obj(Props(Absent, Ref(2))) }     \* { b: <object 2> }

ValueAction(p) == [tag |-> "object", body |-> "value", p |-> p]
\* () => p
ConstUpdater(p) == [tag |-> "function", body |-> "const", p |-> p]
\* prev => ({ a: prev.a === 1 ? 2 : 1 })
FlipUpdater == [tag |-> "function", body |-> "flip", p |-> Obj(NoProps)]
NoAction == [tag |-> "none", body |-> "none", p |-> Obj(NoProps)]
Updaters == {ConstUpdater(Obj(Props(Absent, Undef))), FlipUpdater}

\* f(prev)
Apply(f, prev) ==
  IF f.body = "flip"
  THEN Obj(Props(IF prev.props["a"] = Num(1) THEN Num(2) ELSE Num(1), Absent))
  ELSE f.p

\* {}.toString.call(f) === '[object Function]'
IsFunction(action) == action.tag = "function"

(***************************************************************************)
(* update(store, action), lines 69-89: what one call does given the value  *)
(* read from the store, the flag and the number of ' at ' frames of the    *)
(* captured stack trace.  log is the console report (at most one), set the *)
(* value handed to store.set (none when the call raised before it).        *)
(***************************************************************************)
FrameIndex == 4

\* ps = JSON.parse(JSON.stringify(prevStore, serializer())), line 73
JSONclone(v) ==
  LET Parsed(str) == [raised |-> str.raised \/ JSONparseRaises(str.doc),
                      value |-> JSONparse(str.doc)]
  IN CHOOSE c \in {Parsed(str) : str \in {JSONstringify(HeapWith(v), RootOf(v))}} : TRUE

\* Update with the snapshot taken after the merge: ps is the clone of ns.
UpdateSnapshotsNext(prevStore, action, en, frames) ==
  LET result == IF IsFunction(action) THEN Apply(action, prevStore) ELSE action.p
      ns == Spread(prevStore, result)
      Raised == [raised |-> TRUE, log |-> <<>>, set |-> <<>>]
      Logged(clone) ==
        IF JSONclone(prevStore).raised THEN Raised
        ELSE IF frames < FrameIndex THEN Raised
        ELSE [raised |-> FALSE,
              log |-> <<[partial |-> result, prev |-> clone.value, next |-> ns]>>,
              set |-> <<ns>>]
  IN IF en
     THEN CHOOSE out \in {Logged(clone) : clone \in {JSONclone(ns)}} : TRUE
     ELSE [raised |-> FALSE, log |-> <<>>, set |-> <<ns>>]

Update(prevStore, action, en, frames) ==
  LET result == IF IsFunction(action) THEN Apply(action, prevStore) ELSE action.p
      ns == Spread(prevStore, result)
      Raised == [raised |-> TRUE, log |-> <<>>, set |-> <<>>]
      Logged(clone) ==
        IF clone.raised THEN Raised
        \* stack.split('at ')[4] is undefined when the trace has under 4 frames
        ELSE IF frames < FrameIndex THEN Raised
        ELSE [raised |-> FALSE,
              log |-> <<[partial |-> result, prev |-> clone.value, next |-> ns]>>,
              set |-> <<ns>>]
  IN IF en
     THEN CHOOSE out \in {Logged(clone) : clone \in {JSONclone(prevStore)}} : TRUE
     ELSE [raised |-> FALSE, log |-> <<>>, set |-> <<ns>>]

(***************************************************************************)
(* The svelte writable behind every container.                             *)
(***************************************************************************)
Loggables == {"logged", "empty"}     \* loggable(writable(v)), loggable()
Mergeables == {"merge"}              \* mergeable(v)
Containers == Loggables \cup Mergeables
Subscribers == {"s1", "s2"}
NoDelivery == [s \in Subscribers |-> <<>>]

\* get(store)
Get(c) == value[c]

\* safe_not_equal: an object always counts as changed.
SafeNotEqual(old, new) == ~(old.kind = "undefined" /\ new.kind = "undefined")

\* store.set(v): keep v and run every subscriber with it.
StoreSet(c, v) ==
  /\ value' = [value EXCEPT ![c] = v]
  /\ delivered' = [delivered EXCEPT ![c] =
       [s \in Subscribers |-> IF s \in subs[c] /\ SafeNotEqual(value[c], v)
                              THEN <<v>> ELSE <<>>]]

\* The record of an operation; again says that it repeats, with the same
\* argument, the operation applied just before it.
Called(c, op, action, raised) ==
  [c |-> c, op |-> op, action |-> action, raised |-> raised,
   again |-> last.c = c /\ last.op = op /\ last.action = action /\ ~last.raised]
NothingCalled ==
  [c |-> "none", op |-> "none", action |-> NoAction, raised |-> FALSE, again |-> FALSE]

(***************************************************************************)
(* Operations                                                              *)
(***************************************************************************)
\* loggable(store?) / mergeable(initialValue)
Create(c) ==
  /\ c \notin created
  /\ created' = created \cup {c}
  /\ value' = [value EXCEPT ![c] = IF c = "empty" THEN UndefinedValue ELSE InitialValue]
  /\ console' = <<>>
  /\ last' = Called(c, "create", NoAction, FALSE)
  /\ UNCHANGED <<heap, enabled, subs, delivered, ser>>

\* loggable.enabled = b
SetEnabled(b) ==
  /\ enabled' = b
  /\ console' = <<>>
  /\ last' = Called("none", "flag", NoAction, FALSE)
  /\ UNCHANGED <<heap, created, value, subs, delivered, ser>>

\* w.set(value) and w.update(updater) of a logged container: update(store, x)
LoggedCall(c, op, action, frames) ==
  /\ c \in created \cap Loggables
  /\ \E out \in {Update(Get(c), action, enabled, frames)} :
       /\ console' = out.log
       /\ IF out.set # <<>> THEN StoreSet(c, out.set[1])
          ELSE /\ value' = value
               /\ delivered' = [delivered EXCEPT ![c] = NoDelivery]
       /\ last' = Called(c, op, action, out.raised)
  /\ UNCHANGED <<heap, enabled, created, subs, ser>>

\* The number of 'at ' frames a captured stack trace may hold.
StackFrames == 0..MaxFrames

LoggedSet(c) ==
  \E p \in Partials, n \in StackFrames : LoggedCall(c, "set", ValueAction(p), n)

LoggedUpdate(c) ==
  \E f \in Updaters, n \in StackFrames :
    /\ f.body = "flip" => value[c].kind = "object"
    /\ LoggedCall(c, "update", f, n)

\* Merge routed through the logging orchestrator, update(w, value).
MergeThroughUpdate(c, p) ==
  /\ c \in created \cap Mergeables
  /\ \E out \in {Update(Get(c), ValueAction(p), enabled, FrameIndex)} :
       /\ console' = out.log
       /\ IF out.set # <<>> THEN StoreSet(c, out.set[1])
          ELSE /\ value' = value
               /\ delivered' = [delivered EXCEPT ![c] = NoDelivery]
       /\ last' = Called(c, "merge", ValueAction(p), out.raised)
  /\ UNCHANGED <<heap, enabled, created, subs, ser>>

\* merge(value) of a mergeable container
Merge(c, p) ==
  /\ c \in created \cap Mergeables
  /\ StoreSet(c, Spread(Get(c), p))
  /\ console' = <<>>
  /\ last' = Called(c, "merge", ValueAction(p), FALSE)
  /\ UNCHANGED <<heap, enabled, created, subs, ser>>

\* set(value) of a mergeable container: the writable's own set
BaseSet(c, v) ==
  /\ c \in created \cap Mergeables
  /\ StoreSet(c, v)
  /\ console' = <<>>
  /\ last' = Called(c, "baseSet", ValueAction(v), FALSE)
  /\ UNCHANGED <<heap, enabled, created, subs, ser>>

\* update(fn) of a mergeable container: the writable's own update, set(fn(value))
BaseUpdate(c, f) ==
  /\ c \in created \cap Mergeables
  /\ f.body = "flip" => value[c].kind = "object"
  /\ StoreSet(c, Apply(f, Get(c)))
  /\ console' = <<>>
  /\ last' = Called(c, "baseUpdate", f, FALSE)
  /\ UNCHANGED <<heap, enabled, created, subs, ser>>

\* subscribe(run): the base store's subscribe, which runs run(value) at once
Subscribe(c, s) ==
  /\ c \in created
  /\ s \notin subs[c]
  /\ subs' = [subs EXCEPT ![c] = @ \cup {s}]
  /\ delivered' = [delivered EXCEPT ![c] = [NoDelivery EXCEPT ![s] = <<value[c]>>]]
  /\ console' = <<>>
  /\ last' = Called(c, "subscribe", NoAction, FALSE)
  /\ UNCHANGED <<heap, enabled, created, value, ser>>

\* the handle subscribe returned
Unsubscribe(c, s) ==
  /\ s \in subs[c]
  /\ subs' = [subs EXCEPT ![c] = @ \ {s}]
  /\ delivered' = [delivered EXCEPT ![c] = NoDelivery]
  /\ console' = <<>>
  /\ last' = Called(c, "unsubscribe", NoAction, FALSE)
  /\ UNCHANGED <<heap, enabled, created, value, ser>>

NotSerialized == [done |-> FALSE, raised |-> FALSE, calls |-> <<>>, doc |-> {}]

Init ==
  /\ heap = AppHeap
  /\ enabled = TRUE
  /\ created = {}
  /\ value = [c \in Containers |-> UndefinedValue]
  /\ subs = [c \in Containers |-> {}]
  /\ delivered = [c \in Containers |-> NoDelivery]
  /\ console = <<>>
  /\ last = NothingCalled
  /\ ser = NotSerialized

\* The logging decorator: a wrapped store and an empty one, the flag, a subscriber.
Next ==
  \/ \E c \in Loggables : Create(c)
  \/ \E b \in BOOLEAN : SetEnabled(b)
  \/ \E c \in Loggables : LoggedSet(c)
  \/ \E c \in Loggables : LoggedUpdate(c)
  \/ Subscribe("logged", "s1")
  \/ Unsubscribe("logged", "s1")

Spec == Init /\ [][Next]_vars

\* The merge decorator: one mergeable store, the flag, two subscribers.
NextMerge ==
  \/ \E c \in Mergeables : Create(c)
  \/ \E b \in BOOLEAN : SetEnabled(b)
  \/ \E c \in Mergeables, p \in Partials : Merge(c, p)
  \/ \E c \in Mergeables, v \in Partials : BaseSet(c, v)
  \/ \E c \in Mergeables, f \in Updaters : BaseUpdate(c, f)
  \/ \E c \in Mergeables, s \in Subscribers : Subscribe(c, s)
  \/ \E c \in Mergeables, s \in Subscribers : Unsubscribe(c, s)

SpecMerge == Init /\ [][NextMerge]_vars

\* Both decorators side by side, without subscribers.
NextBoth ==
  \/ \E c \in {"logged", "merge"} : Create(c)
  \/ \E b \in BOOLEAN : SetEnabled(b)
  \/ LoggedSet("logged")
  \/ LoggedUpdate("logged")
  \/ \E p \in Partials : Merge("merge", p)
  \/ \E v \in Partials : BaseSet("merge", v)

SpecBoth == Init /\ [][NextBoth]_vars

(***************************************************************************)
(* The serializer on its own: JSON.stringify(object 1, serializer()) over  *)
(* every heap of NObj objects.                                             *)
(***************************************************************************)
\* Objects are numbered in the order a walk from object 1 can first meet them:
\* a property of object i holds a number, or refers to one of objects 1..i+1.
FieldValues(i) == {Num(1)} \cup {Ref(j) : j \in {k \in ObjIds : k <= i + 1}}
SerHeaps ==
  {h \in [ObjIds -> [Keys -> FieldValues(NObj)]] :
     \A i \in ObjIds, k \in Keys : h[i][k] \in FieldValues(i)}

Serialize ==
  /\ ~ser.done
  /\ LET r == JSONstringify(heap, Ref(1))
     IN ser' = [done |-> TRUE, raised |-> r.raised, calls |-> r.calls, doc |-> r.doc]
  /\ UNCHANGED <<heap, enabled, created, value, subs, delivered, console, last>>

InitSer ==
  /\ heap \in SerHeaps
  /\ enabled = TRUE
  /\ created = {}
  /\ value = [c \in Containers |-> UndefinedValue]
  /\ subs = [c \in Containers |-> {}]
  /\ delivered = [c \in Containers |-> NoDelivery]
  /\ console = <<>>
  /\ last = NothingCalled
  /\ ser = NotSerialized

NextSer == Serialize

SpecSer == InitSer /\ [][NextSer]_vars

(***************************************************************************)
(* Properties                                                              *)
(***************************************************************************)
LoggedOps == {"set", "update"}
Has(v, k) == v.props[k] # Absent

\* The partial value of a call: the argument, or the updater applied to prev.
PartialOf(action, prev) == IF action.tag = "function" THEN Apply(action, prev) ELSE action.p

\* next is prev overlaid with partial.
IsOverlay(next, prev, partial) ==
  /\ next.kind = "object"
  /\ \A k \in Keys :
       /\ Has(partial, k) => next.props[k] = partial.props[k]
       /\ (~Has(partial, k) /\ Has(prev, k)) => next.props[k] = prev.props[k]
       /\ (~Has(partial, k) /\ ~Has(prev, k)) => ~Has(next, k)

\* The content of a live value, as members <<key path, value>>: objects are
\* followed through the heap, "..." where the walk is cut after depth levels.
RECURSIVE Unfold(_, _, _, _)
Unfold(h, v, path, depth) ==
  IF ~IsRef(v) THEN {<<path, v>>}
  ELSE IF depth = 0 THEN {<<path, <<"...">> >>}
  ELSE {<<path, <<"{">> >>} \cup
       UNION {Unfold(h, h[v[2]][k], Append(path, k), depth - 1) :
                k \in {x \in Keys : h[v[2]][x] # Absent}}

\* No chain of distinct objects is longer than the root and the heap's objects.
Content(v) == Unfold(HeapWith(v), RootOf(v), <<>>, NObj + 1)

\* v holds, at any depth, neither undefined nor a reference back into itself.
JSONSafe(v) ==
  /\ v.kind = "object"
  /\ \A m \in Content(v) : m[2] # Undef /\ m[2] # <<"...">>

\* C1: a set/update call of a logged container that publishes a value
\* publishes prev overlaid with the partial (the argument, or f(prev)), and
\* hands that same value to the registered subscribers.
C1_ShallowMergeLaw ==
  [][(last'.op \in LoggedOps /\ ~last'.raised) =>
       /\ IsOverlay(value'[last'.c], value[last'.c],
                    PartialOf(last'.action, value[last'.c]))
       /\ \A s \in subs[last'.c] : delivered'[last'.c][s] = <<value'[last'.c]>>]_vars

\* An updater ran on { a: 1, b: <object 1> } and published { a: 2, b: <object 1> }.
C1_Witness ==
  /\ last.op = "update" /\ last.action.body = "flip" /\ ~last.raised
  /\ value[last.c] = Obj(Props(Num(2), Ref(1)))

\* C2: every set/update call of a logged container delivers exactly one
\* notification to each registered subscriber, carrying the next value that
\* call computed.
C2_SubscriberDelivery ==
  [][last'.op \in LoggedOps =>
       \A s \in subs[last'.c] :
         /\ Len(delivered'[last'.c][s]) = 1
         /\ IsOverlay(delivered'[last'.c][s][1], value[last'.c],
                      PartialOf(last'.action, value[last'.c]))]_vars

\* C3: for the value a call starts from and its argument, the run with the
\* flag off logs nothing and raises, publishes and notifies exactly as the
\* run with the flag on does.
C3_ToggleNonInterference ==
  [][last'.op \in LoggedOps =>
       \A n \in StackFrames :
         LET on == Update(value[last'.c], last'.action, TRUE, n)
             off == Update(value[last'.c], last'.action, FALSE, n)
         IN off.log = <<>> /\ off.raised = on.raised /\ off.set = on.set]_vars

\* C4: no set/update call of a logged container raises; each reaches store.set.
C4_LoggingNeverAborts == last.op \in LoggedOps => ~last.raised

C6_FlagTakesEffect == last.op \in LoggedOps => (console # <<>> <=> enabled)

\* C7: merge(p) right after an applied merge(p), and set(p) right after an
\* applied set(p), leave the container's value as it was.
C7_Idempotence ==
  [][(last'.again /\ last'.op \in {"set", "merge"}) =>
       value'[last'.c] = value[last'.c]]_vars

\* set({ b: <object 1> }) was applied twice in a row to a logged container
\* that holds a: 2.
C7_Witness ==
  /\ last.again /\ last.op = "set" /\ ~last.raised
  /\ value[last.c] = Obj(Props(Num(2), Ref(1)))

\* C8: JSON.stringify with serializer() over any heap does not raise; a value
\* that is one of the objects open above its position is replaced by
\* '[Circular ~]' when it is the root and by '[Circular ~.' + the dotted keys
\* leading to it + ']' otherwise; every other value is passed through.
C8_CycleSafety ==
  ser.done =>
    /\ ~ser.raised
    /\ \A i \in 1..Len(ser.calls) :
         LET c == ser.calls[i]
             pos == IndexOf(c.anc, c.value)
         IN IF pos = -1 THEN c.out = c.value
            ELSE IF pos = 0 THEN c.out = Str(<<"[Circular ~", "]">>)
            ELSE c.out = Str(<<"[Circular ~.">> \o JoinDot(SubSeq(c.path, 1, pos))
                               \o <<"]">>)

\* A run met a reference back to the object at a.b and, elsewhere, a second
\* reference to an object that is not open, which it passed through.
C8_Witness ==
  /\ ser.done
  /\ \E i \in 1..Len(ser.calls) :
       ser.calls[i].out = Str(<<"[Circular ~.", "a", ".", "b", "]">>)
  /\ \E i, j \in 1..Len(ser.calls) :
       /\ i < j /\ IsRef(ser.calls[i].value)
       /\ ser.calls[j].value = ser.calls[i].value
       /\ ser.calls[j].out = ser.calls[j].value

\* C9: merge writes nothing to the console, whatever loggable.enabled is, and
\* publishes the current value overlaid with the partial to the store and its
\* subscribers; set and update are the writable's own: set replaces the whole
\* value, update sets fn(value).
C9_MergeIsolation ==
  [][/\ last'.op = "merge" =>
          /\ console' = <<>> /\ ~last'.raised
          /\ IsOverlay(value'[last'.c], value[last'.c], last'.action.p)
          /\ \A s \in subs[last'.c] : delivered'[last'.c][s] = <<value'[last'.c]>>
     /\ last'.op = "baseSet" =>
          /\ console' = <<>>
          /\ value'[last'.c] = last'.action.p
          /\ \A s \in subs[last'.c] : delivered'[last'.c][s] = <<value'[last'.c]>>
     /\ last'.op = "baseUpdate" =>
          /\ console' = <<>>
          /\ value'[last'.c] = Apply(last'.action, value[last'.c])]_vars

\* With the flag on and both subscribers registered, merge({ b: <object 1> })
\* kept a: 1 and wrote nothing.
C9_Witness ==
  /\ last.op = "merge" /\ enabled /\ console = <<>>
  /\ subs["merge"] = Subscribers
  /\ value["merge"] = Obj(Props(Num(1), Ref(1)))
  /\ \A s \in Subscribers : delivered["merge"][s] = <<value["merge"]>>

\* C10: the first set(v) of a logged container created without a base store,
\* which holds undefined until then, does not raise and leaves it holding v.
C10_FirstUpdateOfEmpty ==
  [][(last'.c = "empty" /\ last'.op = "set" /\ value["empty"].kind = "undefined") =>
       /\ ~last'.raised
       /\ value'["empty"] = last'.action.p]_vars

====
